---- MODULE Spec2Model ----
(***************************************************************************)
(* Model of src/app.py (dashboard-pessoal): the ingestion of one uploaded  *)
(* CSV export by DataLoader.load_data / DataLoader._process_dataframe      *)
(* (parsing, required columns, date columns, age filter, CPF, service      *)
(* time) and the run of main() that follows it: the validation, the rank   *)
(* filter, the summary, the charts, the table by work unit, the figures    *)
(* about the permanence bonus and the detailed view with its unit          *)
(* selection.                                                              *)
(*                                                                         *)
(* Text is a sequence of symbols.  A symbol is a one-character string      *)
(* ("1", ".", " ") or, where the code never looks inside a word, a whole   *)
(* word ("Coronel").  A line of the file is the sequence of its fields     *)
(* (split on ';'), the blank line is the empty sequence, and a file is the *)
(* sequence of its lines.                                                  *)
(***************************************************************************)
EXTENDS Integers, Sequences, FiniteSets, TLC

VARIABLES uploaded_file, df, erro, calls, log, cargo_selecionado, fig_cargo,
          df_filtrado, df_final, fig_unit, unit_data, fig_idade,
          file_encodings, encodings_tried, aposentados, retirement_candidates,
          agora, valido, avisos, efetivo, unidade_selecionada, erro_main,
          tabs_detalhe, df_unidade

vars == <<uploaded_file, df, erro, calls, log, cargo_selecionado, fig_cargo,
          df_filtrado, df_final, fig_unit, unit_data, fig_idade,
          file_encodings, encodings_tried, aposentados, retirement_candidates,
          agora, valido, avisos, efetivo, unidade_selecionada, erro_main,
          tabs_detalhe, df_unidade>>

----------------------------------------------------------------------------
(* Constants of the program                                                *)

ORDEM_CARGOS ==
  << "Todos", "Soldado 2ª Classe", "Soldado 1ª Classe", "Cabo", "3º Sargento",
     "2º Sargento", "1º Sargento", "Subtenente", "Aluno de 1º Ano",
     "Aluno de 2º Ano", "Aluno de 3º Ano", "Aspirante a Oficial", "2º Tenente",
     "2º Tenente 6", "1º Tenente", "Capitão", "Major", "Tenente Coronel",
     "Coronel" >>

cID     == <<"ID">>
cNome   == <<"Nome">>
cCPF    == <<"CPF">>
cNasc   == <<"Data Nascimento">>
cIdade  == <<"Idade">>
cUnid   == <<"Descrição da Unidade de Trabalho">>
cCargo  == <<"Cargo">>
cInicio == <<"Data Início">>
cAbono  == <<"Recebe Abono Permanência">>
cCPFfmt == <<"CPF_formatado">>
cTempo  == <<"Tempo de Serviço (Anos)">>

COLUNAS_OBRIGATORIAS == <<cNome, cCPF, cIdade, cCargo, cUnid, cNasc>>

\* skiprows=7 of pd.read_csv
SKIPROWS == 7

\* df['Idade'].between(18, 62, inclusive='both')
IDADE_MIN == 18
IDADE_MAX == 62

\* Line 384: len(df) < 10
POUCOS_REGISTROS == 10

----------------------------------------------------------------------------
(* Helpers on sequences and text                                           *)

Range(s) == {s[i] : i \in DOMAIN s}

Max(a, b) == IF a >= b THEN a ELSE b

Digits == {"0", "1", "2", "3", "4", "5", "6", "7", "8", "9"}

IsDigit(c) == c \in Digits

DigitVal(c) ==
  CASE c = "0" -> 0 [] c = "1" -> 1 [] c = "2" -> 2 [] c = "3" -> 3
    [] c = "4" -> 4 [] c = "5" -> 5 [] c = "6" -> 6 [] c = "7" -> 7
    [] c = "8" -> 8 [] c = "9" -> 9

AllDigits(t) == \A i \in DOMAIN t : IsDigit(t[i])

\* The number a text of digits writes (0 for the empty text)
RECURSIVE DigitsValue(_)
DigitsValue(t) ==
  IF t = <<>> THEN 0
  ELSE 10 * DigitsValue(SubSeq(t, 1, Len(t) - 1)) + DigitVal(t[Len(t)])

RECURSIVE Pow10(_)
Pow10(n) == IF n = 0 THEN 1 ELSE 10 * Pow10(n - 1)

\* the positions of s, in order
Indices(s) == [i \in 1..Len(s) |-> i]

\* str.strip(): leading and trailing blanks removed
RECURSIVE lstrip(_)
lstrip(t) == IF t # <<>> /\ t[1] = " " THEN lstrip(Tail(t)) ELSE t

RECURSIVE rstrip(_)
rstrip(t) ==
  IF t # <<>> /\ t[Len(t)] = " " THEN rstrip(SubSeq(t, 1, Len(t) - 1)) ELSE t

strip(t) == rstrip(lstrip(t))

\* str.replace(a, b) for a one-symbol pattern a and a replacement text b
replace1(t, a, b) ==
  LET RECURSIVE go(_)
      go(s) == IF s = <<>> THEN <<>>
               ELSE (IF s[1] = a THEN b ELSE <<s[1]>>) \o go(Tail(s))
  IN go(t)

\* str.replace(pat, rep, regex=False) for a two-symbol pattern, scanning
\* left to right without overlap
replace2(t, a1, a2, rep) ==
  LET RECURSIVE go(_)
      go(s) == IF Len(s) < 2 THEN s
               ELSE IF s[1] = a1 /\ s[2] = a2
                    THEN rep \o go(SubSeq(s, 3, Len(s)))
                    ELSE <<s[1]>> \o go(Tail(s))
  IN go(t)

----------------------------------------------------------------------------
(* Cells of a DataFrame: a string, NaN, a number num/den, a date <<year,   *)
(* month, day>>, or NaT                                                    *)

Str(t) == [k |-> "str", v |-> t]

NaN == [k |-> "nan", v |-> <<>>]

Num(n, d) == [k |-> "num", v |-> <<n, d>>]

Date(y, m, d) == [k |-> "date", v |-> <<y, m, d>>]

NaT == [k |-> "nat", v |-> <<>>]

isna(c) == c.k \in {"nan", "nat"}

\* The table load_data returns: None, or the columns and the rows.  A row
\* carries the number of the file line it was read from.
None == [isNone |-> TRUE, columns |-> <<>>, rows |-> <<>>]

DataFrame(cols, rws) == [isNone |-> FALSE, columns |-> cols, rows |-> rws]

----------------------------------------------------------------------------
(* pd.read_csv(file, sep=';', dtype=str, skiprows=7, on_bad_lines='skip')   *)

\* Field texts that the parser reads as a missing value (keep_default_na),
\* each written as one word
NA_VALUES ==
  { <<>>, <<"NA">>, <<"N/A">>, <<"n/a">>, <<"NULL">>, <<"null">>, <<"NaN">>,
    <<"nan">>, <<"None">>, <<"#N/A">>, <<"#NA">>, <<"<NA>">>, <<"-NaN">>,
    <<"-nan">> }

ReadField(f) == IF f \in NA_VALUES THEN NaN ELSE Str(f)

\* A parser that looks for the header line instead of skipping 7 lines
ParsedLineNos_scan(file) ==
  LET hs == SelectSeq(Indices(file),
                      LAMBDA i : \A c \in Range(COLUNAS_OBRIGATORIAS) :
                                   c \in Range(file[i]))
  IN SelectSeq(Indices(file),
               LAMBDA i : hs # <<>> /\ i >= hs[1] /\ file[i] # <<>>)

\* The numbers of the lines the parser tokenizes: the first SKIPROWS lines
\* of the file are skipped whatever they hold, and so is every blank line
\* after them (skip_blank_lines).  The first of these lines is the header.
ParsedLineNos(file) ==
  SelectSeq(Indices(file), LAMBDA i : i > SKIPROWS /\ file[i] # <<>>)

\* The width of the table: the header's field count, or the first data
\* row's when that row is longer (the tokenizer never rejects the line after
\* the header; its surplus leading fields become an implicit index).
TableWidth(file) ==
  LET nb == ParsedLineNos(file)
  IN IF Len(nb) < 2 THEN Len(file[nb[1]])
     ELSE Max(Len(file[nb[1]]), Len(file[nb[2]]))

\* A parser that truncates a long line instead of skipping it
GoodLineNos_truncate(file) == Tail(ParsedLineNos(file))

\* on_bad_lines='skip': a line with more fields than the table is wide is
\* skipped whole; a line with fewer is kept and padded with missing values.
GoodLineNos(file) ==
  LET nb == ParsedLineNos(file)
      w  == TableWidth(file)
  IN SelectSeq(Tail(nb), LAMBDA i : Len(file[i]) <= w)

\* The row read from line i: column j of the header takes field lead + j.
ReadRow(file, i) ==
  LET nb     == ParsedLineNos(file)
      header == file[nb[1]]
      lead   == TableWidth(file) - Len(header)
      pos(c) == CHOOSE j \in DOMAIN header :
                  header[j] = c /\ \A m \in 1..(j - 1) : header[m] # c
      cell(c) == IF lead + pos(c) <= Len(file[i])
                 THEN ReadField(file[i][lead + pos(c)])
                 ELSE NaN
  IN [line |-> i, c |-> [c \in Range(header) |-> cell(c)]]

\* The frame, or None when there is no line to take the header from
\* (EmptyDataError: "No columns to parse from file").
read_csv(file) ==
  LET nb == ParsedLineNos(file)
  IN IF nb = <<>> THEN None
     ELSE LET good == GoodLineNos(file)
          IN DataFrame(file[nb[1]],
                       [n \in 1..Len(good) |-> ReadRow(file, good[n])])

\* A check of the columns that _process_dataframe itself reads only
colunas_faltantes_processadas(frame) ==
  SelectSeq(<<cCPF, cIdade>>, LAMBDA c : c \notin Range(frame.columns))

\* [col for col in COLUNAS_OBRIGATORIAS if col not in df.columns]
colunas_faltantes(frame) ==
  SelectSeq(COLUNAS_OBRIGATORIAS, LAMBDA c : c \notin Range(frame.columns))

----------------------------------------------------------------------------
(* Lines 141-167: the date columns                                         *)

IsLeap(y) == (y % 4 = 0 /\ y % 100 # 0) \/ y % 400 = 0

DaysInMonth(y, m) ==
  IF m = 2 THEN (IF IsLeap(y) THEN 29 ELSE 28)
  ELSE IF m \in {4, 6, 9, 11} THEN 30 ELSE 31

\* The years a Timestamp can hold whole (1677-09-21 .. 2262-04-11)
MinYear == 1678
MaxYear == 2261

\* pd.to_datetime(cell, format=..., errors='coerce') for a format of three
\* numbers joined by sep, in the order "dmy", "ymd" or "mdy": %Y is four
\* digits, %d and %m one or two.  A value that is already a datetime is
\* returned as it is, whatever the format.
to_datetime(cell, sep, order) ==
  IF cell.k \in {"date", "nat"} THEN cell
  ELSE IF cell.k # "str" THEN NaT
  ELSE
    LET t    == cell.v
        cuts == SelectSeq(Indices(t), LAMBDA i : t[i] = sep)
        g1   == SubSeq(t, 1, cuts[1] - 1)
        g2   == SubSeq(t, cuts[1] + 1, cuts[2] - 1)
        g3   == SubSeq(t, cuts[2] + 1, Len(t))
        gy   == IF order = "ymd" THEN g1 ELSE g3
        gm   == IF order = "mdy" THEN g1 ELSE g2
        gd   == IF order = "dmy" THEN g1 ELSE IF order = "ymd" THEN g3 ELSE g2
        y    == DigitsValue(gy)
        m    == DigitsValue(gm)
        d    == DigitsValue(gd)
    IN IF /\ Len(cuts) = 2
          /\ AllDigits(g1) /\ AllDigits(g2) /\ AllDigits(g3)
          /\ Len(gy) = 4 /\ Len(gm) \in {1, 2} /\ Len(gd) \in {1, 2}
          /\ y >= MinYear /\ y <= MaxYear
          /\ m >= 1 /\ m <= 12
          /\ d >= 1 /\ d <= DaysInMonth(y, m)
       THEN Date(y, m, d)
       ELSE NaT

\* df[col] = pd.to_datetime(df[col], format=..., errors='coerce')
to_datetime_column(rws, col, sep, order) ==
  [n \in DOMAIN rws |->
     [rws[n] EXCEPT !.c[col] = to_datetime(@, sep, order)]]

\* pd.isna(df[col]).all()
all_nat(rws, col) == \A n \in DOMAIN rws : isna(rws[n].c[col])

\* Lines 147-163 for one column.  The sample is the first value present;
\* with two '/' in it the column is read as %d/%m/%Y.  Otherwise the formats
\* %Y-%m-%d, %d-%m-%Y and %m/%d/%Y are applied in turn to the column as the
\* pass before left it, until one leaves a date.
convert_date_column(rws, col) ==
  LET present == SelectSeq(rws, LAMBDA r : r.c[col].k = "str")
      sample  == IF present = <<>> THEN <<>> ELSE present[1].c[col].v
      slashes == Len(SelectSeq(sample, LAMBDA ch : ch = "/"))
      pass1   == to_datetime_column(rws, col, "-", "ymd")
      pass2   == to_datetime_column(pass1, col, "-", "dmy")
      pass3   == to_datetime_column(pass2, col, "/", "mdy")
  IN IF slashes = 2 THEN to_datetime_column(rws, col, "/", "dmy")
     ELSE IF ~all_nat(pass1, col) THEN pass1
     ELSE IF ~all_nat(pass2, col) THEN pass2
     ELSE pass3

\* Lines 142-144: both date columns, when the file has them
date_column(rws, cols, col) ==
  IF col \in Range(cols) THEN convert_date_column(rws, col) ELSE rws

convert_dates(frame) ==
  DataFrame(frame.columns,
            date_column(date_column(frame.rows, frame.columns, cNasc),
                        frame.columns, cInicio))

----------------------------------------------------------------------------
(* DataLoader._process_dataframe                                           *)

\* df[col].str.replace('; ', ';').str.replace(';;', ';') of one cell: the
\* .str methods leave a missing value missing
fix_separators(cell) ==
  IF cell.k = "str"
  THEN Str(replace2(replace2(cell.v, ";", " ", <<";">>), ";", ";", <<";">>))
  ELSE cell

\* df[col].str.strip() of one cell
strip_cell(cell) == IF cell.k = "str" THEN Str(strip(cell.v)) ELSE cell

\* dropna(how='all'): the rows that hold at least one value
dropna_all(rws) ==
  SelectSeq(rws, LAMBDA r : \E c \in DOMAIN r.c : ~isna(r.c[c]))

\* pd.to_numeric(text, errors='coerce') on a stripped text over the digits
\* and the point: digits, digits '.' digits, '.' digits, with an optional
\* sign; anything else is NaN.  The number is kept exactly, as num/den.
to_numeric(t) ==
  LET neg  == t # <<>> /\ t[1] = "-"
      body == IF t # <<>> /\ t[1] \in {"-", "+"} THEN Tail(t) ELSE t
      dots == SelectSeq(Indices(body), LAMBDA i : body[i] = ".")
      ip   == IF dots = <<>> THEN body ELSE SubSeq(body, 1, dots[1] - 1)
      fp   == IF dots = <<>> THEN <<>>
              ELSE SubSeq(body, dots[1] + 1, Len(body))
      ok   == /\ Len(dots) <= 1
              /\ AllDigits(ip) /\ AllDigits(fp)
              /\ Len(ip) + Len(fp) > 0
      mag  == DigitsValue(ip \o fp)
  IN IF ok THEN Num(IF neg THEN 0 - mag ELSE mag, Pow10(Len(fp))) ELSE NaN

\* The 'Idade' cell after astype(str), str.strip(), str.replace(',', '.')
\* and pd.to_numeric(errors='coerce'); a missing value reads "nan" as a
\* string and comes back NaN.
idade_numeric(cell) ==
  IF cell.k = "str" THEN to_numeric(replace1(strip(cell.v), ",", <<".">>))
  ELSE NaN

\* between with inclusive='neither'
between_neither(cell, lo, hi) ==
  /\ cell.k = "num"
  /\ lo * cell.v[2] < cell.v[1]
  /\ cell.v[1] < hi * cell.v[2]

\* Series.between(lo, hi, inclusive='both') of one cell: NaN is not between
between(cell, lo, hi) ==
  /\ cell.k = "num"
  /\ lo * cell.v[2] <= cell.v[1]
  /\ cell.v[1] <= hi * cell.v[2]

\* The CPF with its dots removed only
cpf_clean_dots(t) == SelectSeq(t, LAMBDA c : c # ".")

\* The CPF unformatted by position: x[:3] + x[4:7] + x[8:11] + x[12:]
cpf_clean_slices(t) ==
  LET part(a, b) == SubSeq(t, a, IF b <= Len(t) THEN b ELSE Len(t))
  IN part(1, 3) \o part(5, 7) \o part(9, 11) \o part(13, Len(t))

\* df['CPF'].str.replace(r'[^\d]', '', regex=True) of one text
cpf_clean(t) == SelectSeq(t, IsDigit)

\* f"{x[:3]}.{x[3:6]}.{x[6:9]}-{x[9:]}" if len(x) == 11 else x
cpf_formatado(x) ==
  IF Len(x) = 11
  THEN SubSeq(x, 1, 3) \o <<".">> \o SubSeq(x, 4, 6) \o <<".">>
       \o SubSeq(x, 7, 9) \o <<"-">> \o SubSeq(x, 10, 11)
  ELSE x

\* Lines 223-226: in every column whose first value is a string, the
\* strings have '; ' and ';;' replaced by ';'
fix_columns(rws) ==
  [n \in DOMAIN rws |->
     [rws[n] EXCEPT !.c =
        [c \in DOMAIN @ |->
           IF rws[1].c[c].k = "str" THEN fix_separators(@[c])
           ELSE @[c]]]]

\* Lines 235-238: the 'Idade' column made numeric
idade_column(rws) ==
  [n \in DOMAIN rws |-> [rws[n] EXCEPT !.c[cIdade] = idade_numeric(@)]]

\* Line 240: df[df['Idade'].between(18, 62, inclusive='both')]
age_filter(rws) ==
  SelectSeq(rws, LAMBDA r : between(r.c[cIdade], IDADE_MIN, IDADE_MAX))

\* Lines 251-256: 'CPF' cleaned and 'CPF_formatado' added.  The rows must
\* all hold a CPF string (see CpfRaises).
cpf_columns(rws) ==
  [n \in DOMAIN rws |->
     LET x == cpf_clean(rws[n].c[cCPF].v)
     IN [rws[n] EXCEPT !.c =
           [c \in DOMAIN @ \cup {cCPFfmt} |->
              IF c = cCPF THEN Str(x)
              ELSE IF c = cCPFfmt THEN Str(cpf_formatado(x))
              ELSE @[c]]]]

\* Line 255: len(x) of a missing CPF (a float) raises TypeError
CpfRaises(rws) == \E n \in DOMAIN rws : isna(rws[n].c[cCPF])

\* Lines 259-261: str.strip() on the columns of strings
strip_columns(rws) ==
  [n \in DOMAIN rws |->
     [rws[n] EXCEPT !.c = [c \in DOMAIN @ |-> strip_cell(@[c])]]]

\* The rows that reach the age filter, and the rows that pass it, of a frame
\* whose date columns are converted
RowsBeforeAgeFilter(frame) == idade_column(dropna_all(fix_columns(frame.rows)))

RowsAfterAgeFilter(frame) == age_filter(RowsBeforeAgeFilter(frame))

\* _process_dataframe(df): the processed frame, or the exception it raises.
\* df[col].iloc[0] raises IndexError on a frame without rows.  The modelled
\* files carry no 'UF-Cidade' column, so lines 264-271 do nothing, and the
\* reordering of the columns (274-276) changes no row.
ProcessError(frame) ==
  IF frame.rows = <<>> THEN "IndexError"
  ELSE IF CpfRaises(RowsAfterAgeFilter(frame)) THEN "TypeError"
  ELSE "none"

process_dataframe(frame) ==
  DataFrame(frame.columns \o <<cCPFfmt>>,
            strip_columns(cpf_columns(RowsAfterAgeFilter(frame))))

----------------------------------------------------------------------------
(* Lines 172-201: the service time                                         *)

\* The number of the day <<y, m, d>>, counted from a fixed day
DayNumber(date) ==
  LET y == IF date[2] <= 2 THEN date[1] - 1 ELSE date[1]
      m == IF date[2] <= 2 THEN date[2] + 9 ELSE date[2] - 3
  IN 365 * y + (y \div 4) - (y \div 100) + (y \div 400)
     + ((153 * m + 2) \div 5) + date[3] - 1

\* ((hoje - x).days / 365.25).round(1), then fillna(0).clip(0, 40), in
\* tenths of a year: no start date gives 0
CLIP_MAX == 40

\* The same number of years without the upper limit of clip
tempo_de_servico_noclip(cell, hoje) ==
  IF cell.k # "date" THEN Num(0, 10)
  ELSE LET days   == DayNumber(hoje) - DayNumber(cell.v)
           tenths == IF days <= 0 THEN 0 ELSE (80 * days + 1461) \div 2922
       IN Num(tenths, 10)

tempo_de_servico(cell, hoje) ==
  IF cell.k # "date" THEN Num(0, 10)
  ELSE LET days   == DayNumber(hoje) - DayNumber(cell.v)
           tenths == IF days <= 0 THEN 0 ELSE (80 * days + 1461) \div 2922
       IN Num(IF tenths > 10 * CLIP_MAX THEN 10 * CLIP_MAX ELSE tenths, 10)

\* Lines 179-181: when no row has a start date, apply returns a column of
\* None, of dtype object, that round(1) is called on
all_none(frame) ==
  /\ cInicio \in Range(frame.columns)
  /\ \A n \in DOMAIN frame.rows : frame.rows[n].c[cInicio].k # "date"

\* Lines 173-201: the column 'Tempo de Serviço (Anos)', when the table has
\* a 'Data Início' (a datetime column since lines 141-167).  Whether
\* Series.round raises TypeError on a column of None or returns it depends
\* on the pandas the program runs with (raises); when it raises, the except
\* of line 199 sets the whole column to NaN.
ServiceTimeError(frame, raises) == all_none(frame) /\ raises

service_time(frame, hoje, raises) ==
  IF cInicio \in Range(frame.columns)
  THEN DataFrame(frame.columns \o <<cTempo>>,
                 [n \in DOMAIN frame.rows |->
                    [frame.rows[n] EXCEPT !.c =
                       [c \in DOMAIN @ \cup {cTempo} |->
                          IF c # cTempo THEN @[c]
                          ELSE IF ServiceTimeError(frame, raises) THEN NaN
                          ELSE tempo_de_servico(frame.rows[n].c[cInicio], hoje)]]])
  ELSE frame

----------------------------------------------------------------------------
(* DataLoader.load_data                                                    *)

\* Line 108: encodings = ['cp1252', 'utf-8', 'latin1']
ENCODINGS == <<"cp1252", "utf-8", "latin1">>

\* What is left of the stream when a read has failed with UnicodeDecodeError.
\* read_csv wraps the uploaded BytesIO in a TextIOWrapper, which takes 8192
\* bytes from it before it decodes any; nothing puts the stream back to its
\* start (there is no file.seek(0)).  The modelled files are shorter than
\* that, so the failed read leaves the stream at its end.
StreamAfterFailure(stream) == <<>>

\* Lines 111-131: the encodings are tried in order from the k-th on the
\* lines left in the stream.  decodable is the set of the encodings under
\* which the bytes of the file decode; no bytes decode under every one.  An
\* attempt that decodes ends the loop, whatever read_csv makes of the text;
\* UnicodeDecodeError goes on to the next encoding, and the loop that runs
\* out of encodings raises ValueError (line 131).
RECURSIVE try_encodings(_, _, _)
try_encodings(stream, decodable, k) ==
  IF k > Len(ENCODINGS)
  THEN [ok |-> FALSE, text |-> <<>>, tried |-> ENCODINGS]
  ELSE IF stream = <<>> \/ ENCODINGS[k] \in decodable
  THEN [ok |-> TRUE, text |-> stream, tried |-> SubSeq(ENCODINGS, 1, k)]
  ELSE try_encodings(StreamAfterFailure(stream), decodable, k + 1)

NoError == [kind |-> "none", cols |-> <<>>]

Error(kind, cols) == [kind |-> kind, cols |-> cols]

\* What one call of load_data leaves behind: the value returned, the error
\* shown with st.error, the steps that ran, and the records written to the
\* log.
Outcome(frame, err, steps, records) ==
  [df |-> frame, erro |-> err, calls |-> steps, log |-> records]

load_data(file, decodable, hoje, raises) ==
  LET raw   == read_csv(try_encodings(file, decodable, 1).text)
      dated == convert_dates(raw)
  IN IF ~try_encodings(file, decodable, 1).ok
     THEN Outcome(None, Error("ValueError: Não foi possível decodificar", <<>>),
                  {"read_csv"}, <<"error: Erro ao carregar dados">>)
     ELSE IF raw.isNone
     THEN Outcome(None, Error("EmptyDataError", <<>>), {"read_csv"},
                  <<"error: Erro ao carregar dados">>)
     ELSE IF colunas_faltantes(raw) # <<>>
     THEN Outcome(None, Error("ValueError: Colunas obrigatórias faltando",
                              colunas_faltantes(raw)),
                  {"read_csv"},
                  <<"info: Arquivo CSV carregado", "info: Colunas encontradas",
                    "error: Erro ao carregar dados">>)
     ELSE IF ProcessError(dated) # "none"
     THEN Outcome(None, Error(ProcessError(dated), <<>>),
                  {"read_csv", "_process_dataframe"},
                  <<"info: Arquivo CSV carregado", "info: Colunas encontradas",
                    "error: Erro ao processar DataFrame",
                    "error: Erro ao carregar dados">>)
     ELSE Outcome(service_time(process_dataframe(dated), hoje, raises), NoError,
                  {"read_csv", "_process_dataframe"}
                    \cup (IF cInicio \in Range(raw.columns)
                          THEN {"tempo_de_servico"} ELSE {}),
                  <<"info: Arquivo CSV carregado", "info: Colunas encontradas">>
                    \o (IF ServiceTimeError(process_dataframe(dated), raises)
                        THEN <<"error: Erro ao calcular tempo de serviço">>
                        ELSE <<>>))

----------------------------------------------------------------------------
(* DataValidator.validate_dataframe                                        *)

\* A validation that also refuses a table with a repeated CPF
validate_dataframe_strict(frame) ==
  /\ ~frame.isNone
  /\ frame.rows # <<>>
  /\ \A col \in Range(COLUNAS_OBRIGATORIAS) : col \in Range(frame.columns)
  /\ \A m, n \in DOMAIN frame.rows :
        frame.rows[m].c[cCPF] = frame.rows[n].c[cCPF] => m = n

\* Lines 373-381 and 414: the value validate_dataframe returns.  It is False
\* for None, for a table without rows and for a table that lacks a required
\* column; nothing after line 381 returns False.
validate_dataframe(frame) ==
  /\ ~frame.isNone
  /\ frame.rows # <<>>
  /\ \A col \in Range(COLUNAS_OBRIGATORIAS) : col \in Range(frame.columns)

\* A count of the repeated CPFs that leaves the first row of each out
duplicated_cpfs_first(rws) ==
  {n \in DOMAIN rws : \E m \in 1..(n - 1) : rws[m].c[cCPF] = rws[n].c[cCPF]}

\* Lines 388-389: df[df['CPF'].duplicated(keep=False)], every row whose CPF
\* is the CPF of another row; there is one exactly when duplicated().any()
duplicated_cpfs(rws) ==
  {n \in DOMAIN rws : \E m \in DOMAIN rws : m # n /\ rws[m].c[cCPF] = rws[n].c[cCPF]}

\* Line 395: the ages outside the expected interval
idades_fora(rws) ==
  {n \in DOMAIN rws :
     /\ rws[n].c[cIdade].k = "num"
     /\ ~between(rws[n].c[cIdade], IDADE_MIN, IDADE_MAX)}

\* Line 400: df[col].isna().sum()
null_count(rws, col) == Cardinality({n \in DOMAIN rws : isna(rws[n].c[col])})

\* Line 410: df[df['Data Início'] > datetime.now()]; a start date on the day
\* of the run is not after the time of the run
future_dates(rws, now) ==
  {n \in DOMAIN rws :
     /\ rws[n].c[cInicio].k = "date"
     /\ DayNumber(rws[n].c[cInicio].v) > DayNumber(now)}

Aviso(tipo, col, n) == [tipo |-> tipo, col |-> col, n |-> n]

\* Lines 373-412: the messages validate_dataframe shows (st.error and
\* st.warning), in the order of the code, each with the count it reports
validate_messages(frame, now) ==
  IF frame.isNone \/ frame.rows = <<>>
  THEN <<Aviso("error: DataFrame vazio", <<>>, 0)>>
  ELSE IF colunas_faltantes(frame) # <<>>
  THEN <<Aviso("error: Colunas obrigatórias faltando", <<>>,
               Len(colunas_faltantes(frame)))>>
  ELSE LET rws == frame.rows
           nulls == [i \in DOMAIN COLUNAS_OBRIGATORIAS |->
                       Aviso("warning: valores nulos", COLUNAS_OBRIGATORIAS[i],
                             null_count(rws, COLUNAS_OBRIGATORIAS[i]))]
       IN (IF Len(rws) < POUCOS_REGISTROS
           THEN <<Aviso("warning: poucos registros", <<>>, Len(rws))>>
           ELSE <<>>)
          \o (IF duplicated_cpfs(rws) # {}
              THEN <<Aviso("warning: CPFs duplicados", cCPF,
                           Cardinality(duplicated_cpfs(rws)))>>
              ELSE <<>>)
          \o (IF idades_fora(rws) # {}
              THEN <<Aviso("warning: idades fora do intervalo", cIdade,
                           Cardinality(idades_fora(rws)))>>
              ELSE <<>>)
          \o SelectSeq(nulls, LAMBDA a : a.n > 0)
          \o (IF cNasc \in Range(frame.columns) /\ null_count(rws, cNasc) > 0
              THEN <<Aviso("warning: sem data de nascimento", cNasc,
                           null_count(rws, cNasc))>>
              ELSE <<>>)
          \o (IF cInicio \in Range(frame.columns)
                 /\ future_dates(rws, now) # {}
              THEN <<Aviso("warning: data de início no futuro", cInicio,
                           Cardinality(future_dates(rws, now)))>>
              ELSE <<>>)

\* Line 1240: validate_dataframe is called when load_data returned a table
NotCalled == "not called"

ValidationAfterRun(frame) ==
  IF frame.isNone THEN NotCalled ELSE validate_dataframe(frame)

MessagesAfterRun(frame, now) ==
  IF frame.isNone THEN <<>> ELSE validate_messages(frame, now)

----------------------------------------------------------------------------
(* main(): the rank filter and ChartManager.create_cargo_chart             *)

\* st.session_state before create_cargo_filters has run
Unset == "<unset>"

pracas ==
  << "Soldado 2ª Classe", "Soldado 1ª Classe", "Cabo", "3º Sargento",
     "2º Sargento", "1º Sargento", "Subtenente" >>

oficiais ==
  << "Aspirante a Oficial", "2º Tenente", "2º Tenente 6", "1º Tenente",
     "Capitão", "Major", "Tenente Coronel", "Coronel" >>

alunos == << "Aluno de 1º Ano", "Aluno de 2º Ano", "Aluno de 3º Ano" >>

\* A button that selects its rank when nothing is selected and clears the
\* selection otherwise
toggle_reset(sel, cargo) == IF sel = "Todos" THEN cargo ELSE "Todos"

\* Lines 945, 951 and 957: the selection a click on the button of a rank
\* leaves, cargo if cargo_selecionado != cargo else "Todos"
toggle(sel, cargo) == IF sel # cargo THEN cargo ELSE "Todos"

\* The cell a rank name is compared with
CargoCell(cargo) == Str(<<cargo>>)

\* A filter that falls back to the whole table when no row has the rank
df_filtered_fallback(frame, sel) ==
  LET hits == SelectSeq(frame.rows, LAMBDA r : r.c[cCargo] = CargoCell(sel))
  IN IF sel # "Todos" /\ hits # <<>> THEN hits ELSE frame.rows

\* Lines 1249-1259: df[df['Cargo'] == cargo_selecionado], or df itself
df_filtered(frame, sel) ==
  IF sel # "Todos"
  THEN SelectSeq(frame.rows, LAMBDA r : r.c[cCargo] = CargoCell(sel))
  ELSE frame.rows

\* df['Cargo'].value_counts()[cargo]
cargo_count(rws, cargo) ==
  Cardinality({n \in DOMAIN rws : rws[n].c[cCargo] = CargoCell(cargo)})

\* The ranks of the hierarchy in the order the data first shows them
ordered_cargos_seen(rws) ==
  LET first(g) == CHOOSE n \in DOMAIN rws :
                    /\ rws[n].c[cCargo] = CargoCell(g)
                    /\ \A m \in 1..(n - 1) : rws[m].c[cCargo] # CargoCell(g)
      present == {g \in Range(ORDEM_CARGOS) \ {"Todos"} :
                    \E n \in DOMAIN rws : rws[n].c[cCargo] = CargoCell(g)}
      starts  == SelectSeq(Indices(rws),
                           LAMBDA n : \E g \in present : first(g) = n)
  IN [i \in DOMAIN starts |-> rws[starts[i]].c[cCargo].v[1]]

\* Every rank of the data: those of the hierarchy in its order, then the
\* others
ordered_cargos_every(rws) ==
  LET others == SelectSeq(Indices(rws),
                  LAMBDA n : /\ rws[n].c[cCargo].k = "str"
                             /\ Len(rws[n].c[cCargo].v) = 1
                             /\ rws[n].c[cCargo].v[1] \notin Range(ORDEM_CARGOS)
                             /\ \A m \in 1..(n - 1) :
                                   rws[m].c[cCargo] # rws[n].c[cCargo])
  IN SelectSeq(ORDEM_CARGOS,
               LAMBDA cargo : /\ cargo # "Todos"
                              /\ \E n \in DOMAIN rws :
                                    rws[n].c[cCargo] = Str(<<cargo>>))
     \o [i \in DOMAIN others |-> rws[others[i]].c[cCargo].v[1]]

\* Line 512: the ranks of ORDEM_CARGOS found in the data, "Todos" left out,
\* in the order of ORDEM_CARGOS
ordered_cargos(rws) ==
  SelectSeq(ORDEM_CARGOS,
            LAMBDA cargo : cargo_count(rws, cargo) > 0 /\ cargo # "Todos")

\* create_cargo_chart(df): the bars of the figure, y the rank and x its count
create_cargo_chart(rws) ==
  LET ordered == ordered_cargos(rws)
  IN [i \in DOMAIN ordered |->
        [y |-> ordered[i], x |-> cargo_count(rws, ordered[i])]]

\* main() shows the dashboard when load_data returned a table and
\* validate_dataframe accepted it (line 1240)
Rendered(frame) == ~frame.isNone /\ validate_dataframe(frame)

NoFigure == <<>>

\* Lines 923-924 and 1277: the selection and the rank chart after a run of
\* main() in which no widget was clicked
SelectionAfterRun(frame, sel) ==
  IF Rendered(frame) /\ sel = Unset THEN "Todos" ELSE sel

FigureAfterRun(frame, sel) ==
  IF Rendered(frame) THEN create_cargo_chart(df_filtered(frame, sel))
  ELSE NoFigure

\* Lines 1253 and 1259: main's df_filtered as the filter leaves it
FilteredAfterRun(frame, sel) ==
  IF Rendered(frame) THEN df_filtered(frame, sel) ELSE <<>>

----------------------------------------------------------------------------
(* ChartManager.create_service_time_chart and the table main() holds       *)

cFaixaTempo == <<"faixa_tempo">>

\* Lines 639-640: bins and labels of the service time
TEMPO_BINS == <<0, 5, 10, 15, 20, 25, 30, 35, 40>>

TEMPO_LABELS ==
  <<"0-5", "5-10", "10-15", "15-20", "20-25", "25-30", "30-35", "35-40">>

\* pd.cut(x, bins=bins, labels=labels) of one cell: the intervals are open
\* on the left and closed on the right (right=True, include_lowest=False);
\* a missing value, and a value in no interval, has no label
cut(cell, bins, labels) ==
  LET hits == {i \in DOMAIN labels :
                 /\ bins[i] * cell.v[2] < cell.v[1]
                 /\ cell.v[1] <= bins[i + 1] * cell.v[2]}
  IN IF cell.k # "num" \/ hits = {} THEN NaN
     ELSE Str(<<labels[CHOOSE i \in hits : TRUE]>>)

\* Line 642: df['faixa_tempo'] = pd.cut(df['Tempo de Serviço (Anos)'], ...)
\* assigns a column of the table the function was given
faixa_tempo_column(frame) ==
  DataFrame(frame.columns \o <<cFaixaTempo>>,
            [n \in DOMAIN frame.rows |->
               [frame.rows[n] EXCEPT !.c =
                  [c \in DOMAIN @ \cup {cFaixaTempo} |->
                     IF c = cFaixaTempo
                     THEN cut(frame.rows[n].c[cTempo], TEMPO_BINS, TEMPO_LABELS)
                     ELSE @[c]]]])

\* Lines 1306-1307 and 634: the service-time chart is built when the table
\* has 'Data Início' and 'Tempo de Serviço (Anos)'
ServiceChartBuilt(frame) ==
  /\ Rendered(frame)
  /\ cInicio \in Range(frame.columns)
  /\ cTempo \in Range(frame.columns)

\* main's df when the run ends.  With the selection "Todos" df_filtered is df
\* itself (line 1259) and create_service_time_chart assigns its column to
\* df; with a rank selected df_filtered is the new table the boolean
\* indexing of line 1253 made, and df is left as load_data returned it.
TableAfterRun(frame, sel) ==
  IF ServiceChartBuilt(frame) /\ sel = "Todos"
  THEN faixa_tempo_column(frame)
  ELSE frame

----------------------------------------------------------------------------
(* ChartManager.create_unit_chart and DataProcessor.aggregate_by_unit      *)

\* top_n: int = 10
TOP_N == 10

\* The sum of f over the set S
RECURSIVE Sum(_, _)
Sum(f, S) ==
  IF S = {} THEN 0
  ELSE LET x == CHOOSE x \in S : TRUE IN f[x] + Sum(f, S \ {x})

\* n / d rounded to the nearest integer, a tie to the even one (np.round)
round_div(n, d) ==
  LET q == n \div d
      r == n % d
  IN IF 2 * r < d THEN q
     ELSE IF 2 * r > d THEN q + 1
     ELSE IF q % 2 = 0 THEN q ELSE q + 1

\* The work units of the rows: a row without a unit is in no group
unidades(rws) ==
  {rws[n].c[cUnid] : n \in {m \in DOMAIN rws : ~isna(rws[m].c[cUnid])}}

\* df['Descrição da Unidade de Trabalho'].value_counts(): rows per unit
unit_counts(rws) ==
  [u \in unidades(rws) |->
     Cardinality({n \in DOMAIN rws : rws[n].c[cUnid] = u})]

\* The values of a count table from the largest to the smallest
RECURSIVE descending(_, _)
descending(f, S) ==
  IF S = {} THEN <<>>
  ELSE LET x == CHOOSE x \in S : \A y \in S : f[y] <= f[x]
       IN <<f[x]>> \o descending(f, S \ {x})

\* s.head(n)
head(s, n) == SubSeq(s, 1, IF Len(s) < n THEN Len(s) ELSE n)

\* create_unit_chart(df): the lengths of the bars, x of the figure; the
\* order of units with equal counts is not modelled
create_unit_chart(rws) ==
  head(descending(unit_counts(rws), unidades(rws)), TOP_N)

\* contagem=('Nome', 'count'): the rows of the unit that hold a name
contagem(rws, u) ==
  Cardinality({n \in DOMAIN rws :
                 rws[n].c[cUnid] = u /\ ~isna(rws[n].c[cNome])})

\* (contagem / contagem.sum() * 100).round(1), in tenths of a percent
porcentagem(c, total) ==
  IF total = 0 THEN NaN ELSE Num(round_div(1000 * c, total), 10)

\* aggregate_by_unit(df): for every unit its count and its share of the
\* total; the age statistics of the groups are left out
aggregate_by_unit(rws) ==
  LET cont  == [u \in unidades(rws) |-> contagem(rws, u)]
      total == Sum(cont, unidades(rws))
  IN [u \in unidades(rws) |->
        [contagem |-> cont[u], porcentagem |-> porcentagem(cont[u], total)]]

\* Lines 1290-1295 of main()
UnitChartAfterRun(frame, sel) ==
  IF Rendered(frame) THEN create_unit_chart(df_filtered(frame, sel))
  ELSE NoFigure

UnitDataAfterRun(frame, sel) ==
  IF Rendered(frame) THEN aggregate_by_unit(df_filtered(frame, sel))
  ELSE <<>>

----------------------------------------------------------------------------
(* DataProcessor.create_age_groups and ChartManager.create_age_chart       *)

FAIXAS_BINS == <<18, 22, 27, 32, 37, 42, 47, 52, 57, 62>>

FAIXAS_LABELS ==
  <<"18-22", "23-27", "28-32", "33-37", "38-42", "43-47", "48-52", "53-57",
    "58-62">>

\* df_copy['faixa_etaria'] = pd.cut(df_copy['Idade'], bins, labels) of a row
faixa_etaria(r) == cut(r.c[cIdade], FAIXAS_BINS, FAIXAS_LABELS)

\* Lines 433-452: the rows filtered once more by the rank, then
\* value_counts().sort_index() of the age groups: one bar for every label,
\* in the order of the labels, a row without a group counted in none
create_age_chart(frame, cargo_filter) ==
  LET rws == df_filtered(frame, cargo_filter)
  IN [i \in DOMAIN FAIXAS_LABELS |->
        [x |-> FAIXAS_LABELS[i],
         y |-> Cardinality({n \in DOMAIN rws :
                              faixa_etaria(rws[n]) = Str(<<FAIXAS_LABELS[i]>>)})]]

\* Lines 1269-1272 of main()
AgeChartAfterRun(frame, sel) ==
  IF Rendered(frame)
  THEN create_age_chart(DataFrame(frame.columns, df_filtered(frame, sel)), sel)
  ELSE NoFigure

----------------------------------------------------------------------------
(* The permanence bonus: DashboardUI.create_summary_metrics and            *)
(* DataProcessor.create_retirement_candidates                              *)

SIM == <<"S", "I", "M">>

\* str.upper() of a text: the small letters of the modelled values become
\* capitals, every other symbol stays
upper(t) ==
  [i \in DOMAIN t |->
     CASE t[i] = "s" -> "S" [] t[i] = "i" -> "I" [] t[i] = "m" -> "M"
       [] t[i] = "n" -> "N" [] t[i] = "ã" -> "Ã" [] t[i] = "o" -> "O"
       [] OTHER -> t[i]]

\* Line 883: len(df[df['Recebe Abono Permanência'] == 'SIM']), 0 without
\* the column
count_aposentados(frame) ==
  IF cAbono \in Range(frame.columns)
  THEN Cardinality({n \in DOMAIN frame.rows : frame.rows[n].c[cAbono] = Str(SIM)})
  ELSE 0

\* Lines 891 and 899: the ranks create_summary_metrics counts as "Efetivo
\* Praças" and as "Efetivo Oficiais"
METRIC_PRACAS ==
  << "Soldado 2ª Classe", "Soldado 1ª Classe", "Cabo", "3º Sargento",
     "2º Sargento", "1º Sargento", "Subtenente" >>

METRIC_OFICIAIS ==
  << "Aspirante a Oficial", "2º Tenente", "1º Tenente", "Capitão", "Major",
     "Tenente Coronel", "Coronel" >>

\* df['Cargo'].isin(ranks)
isin(cell, ranks) == \E i \in DOMAIN ranks : cell = Str(<<ranks[i]>>)

\* Line 907: df['Cargo'].str.contains('Aluno', na=False).  A rank name is
\* one symbol of a text: the symbols in which 'Aluno' occurs are listed.
COM_ALUNO == {"Aluno de 1º Ano", "Aluno de 2º Ano", "Aluno de 3º Ano"}

contains_aluno(cell) ==
  cell.k = "str" /\ \E i \in DOMAIN cell.v : cell.v[i] \in COM_ALUNO

\* Lines 885-909: the three headcounts of the summary
summary_efetivo(rws) ==
  [pracas   |-> Cardinality({n \in DOMAIN rws : isin(rws[n].c[cCargo], METRIC_PRACAS)}),
   oficiais |-> Cardinality({n \in DOMAIN rws : isin(rws[n].c[cCargo], METRIC_OFICIAIS)}),
   alunos   |-> Cardinality({n \in DOMAIN rws : contains_aluno(rws[n].c[cCargo])})]

NoEfetivo == [pracas |-> 0, oficiais |-> 0, alunos |-> 0]

\* Line 1242: the summary is made of the whole table
EfetivoAfterRun(frame) ==
  IF Rendered(frame) THEN summary_efetivo(frame.rows) ELSE NoEfetivo

\* Line 348: df['Idade'] > 50
cond_idade(r) == r.c[cIdade].k = "num" /\ r.c[cIdade].v[1] > 50 * r.c[cIdade].v[2]

\* Line 349: df[...].str.upper() == 'SIM'; a missing value is not 'SIM'
cond_abono(r) == r.c[cAbono].k = "str" /\ upper(r.c[cAbono].v) = SIM

\* A labelling in which the bonus flag hides the age
Motivo_abono(r) == IF cond_abono(r) THEN "Recebe Abono" ELSE "Idade > 50"

\* Lines 351-354: the candidates and the reason of each
Motivo(r) ==
  IF cond_idade(r) /\ cond_abono(r) THEN "Ambos"
  ELSE IF cond_abono(r) THEN "Recebe Abono"
  ELSE "Idade > 50"

\* create_retirement_candidates(df): the file line and the reason of every
\* candidate.  Without the column df.get returns the string 'NÃO', which
\* has no .str: AttributeError.
create_retirement_candidates(cols, rws) ==
  IF cAbono \notin Range(cols)
  THEN [erro |-> "AttributeError", rows |-> <<>>]
  ELSE LET cand == SelectSeq(rws, LAMBDA r : cond_idade(r) \/ cond_abono(r))
       IN [erro |-> "none",
           rows |-> [n \in DOMAIN cand |->
                       [line |-> cand[n].line, Motivo |-> Motivo(cand[n])]]]

NoCandidates == [erro |-> "none", rows |-> <<>>]

\* Line 1242: the summary is made of the whole table
AposentadosAfterRun(frame) ==
  IF Rendered(frame) THEN count_aposentados(frame) ELSE 0

----------------------------------------------------------------------------
(* DashboardUI.display_detailed_data                                       *)

\* Line 1099: the first option of the unit selectbox
TODAS == <<"Todas">>

\* Line 1099: ["Todas"] + sorted(df[unit].unique().tolist()), as a set; the
\* work units of the modelled tables are texts
unidades_opcoes(rws) == {TODAS} \cup {rws[n].c[cUnid].v : n \in DOMAIN rws}

\* Lines 1102-1105: df[df[unit] == unidade_selecionada], or df
df_unidade_of(rws, unidade) ==
  IF unidade # TODAS
  THEN SelectSeq(rws, LAMBDA r : r.c[cUnid] = Str(unidade))
  ELSE rws

NoDetail ==
  [erro |-> "none", tabs |-> <<>>, df_unidade |-> <<>>,
   candidates |-> NoCandidates]

\* display_detailed_data(df): the exception that leaves it, the tabs it
\* rendered to their end, the rows of the unit tab and the retirement
\* candidates.  With a unit selected, line 1116 reads the names oficiais and
\* pracas, which are locals of create_cargo_filters (929-930) and are defined
\* neither in this function nor in the module: NameError, before the table
\* of the unit (1129) and the retirement tab (1138).
display_detailed_data(cols, rws, unidade) ==
  IF unidade # TODAS
  THEN [erro |-> "NameError", tabs |-> <<"pesquisa">>,
        df_unidade |-> df_unidade_of(rws, unidade),
        candidates |-> NoCandidates]
  ELSE LET cand == create_retirement_candidates(cols, rws)
       IN [erro |-> cand.erro,
           tabs |-> IF cand.erro = "none"
                    THEN <<"pesquisa", "unidade", "aposentadoria">>
                    ELSE <<"pesquisa", "unidade">>,
           df_unidade |-> df_unidade_of(rws, unidade),
           candidates |-> cand]

\* Line 1314: the detailed view is made of the filtered rows; an exception
\* that leaves it is caught and shown by main (1320-1326)
DetailAfterRun(frame, sel, unidade) ==
  IF Rendered(frame)
  THEN display_detailed_data(frame.columns, df_filtered(frame, sel), unidade)
  ELSE NoDetail

\* Line 1100: the selectbox keeps the unit the user chose from one run to
\* the next while its options are the same, and is a new widget, showing
\* "Todas", when they change
UnidadeAfterRun(frame, before, sel, unidade) ==
  IF /\ Rendered(frame)
     /\ unidades_opcoes(df_filtered(frame, sel))
          = unidades_opcoes(df_filtered(frame, before))
  THEN unidade ELSE TODAS

----------------------------------------------------------------------------
(* The uploaded files                                                      *)

\* Bounds of the model: the rows of a file and its lines before the header
MaxRows == 2
MaxPre == 8
MaxUnits == 11

HEADER ==
  <<cID, cNome, cCPF, cNasc, cIdade, cUnid, cCargo, cInicio, cAbono>>

META == << <<"Portal da Transparência - Consulta de Remuneração">> >>

BLANK == <<>>

CPF_PONTUADO ==
  <<"1", "2", "3", ".", "4", "5", "6", ".", "7", "8", "9", "-", "0", "0">>

CPF_DIGITOS == <<"1", "2", "3", "4", "5", "6", "7", "8", "9", "0", "0">>

NASCIMENTO == <<"1", "5", "/", "0", "3", "/", "1", "9", "9", "0">>

INICIO == <<"0", "1", "/", "0", "2", "/", "2", "0", "1", "0">>

\* A start date after the days of the model, and one more than forty
\* years before them
INICIO_FUTURO == <<"0", "1", "/", "0", "2", "/", "2", "0", "3", "0">>

INICIO_ANTIGO == <<"0", "1", "/", "0", "2", "/", "1", "9", "8", "0">>

\* One data line
Row(cpf, idade, cargo) ==
  << <<"1">>, <<"Ana">>, cpf, NASCIMENTO, idade, <<"1º GB">>, cargo, INICIO,
     <<"NÃO">> >>

\* A data line with the start date given
RowInicio(inicio) ==
  << <<"1">>, <<"Ana">>, CPF_PONTUADO, NASCIMENTO, <<"3", "5">>, <<"1º GB">>,
     <<"Cabo">>, inicio, <<"NÃO">> >>

\* Start dates before, after and long before the days of the model
IniciosTempo == { INICIO, INICIO_FUTURO, INICIO_ANTIGO, <<>> }

Inicios ==
  { INICIO, <<"2", "0", "1", "0", "-", "0", "2", "-", "0", "1">>,
    <<"0", "1", "-", "0", "2", "-", "2", "0", "1", "0">>,
    <<"3", "1", "/", "0", "2", "/", "2", "0", "1", "0">>, <<>> }

\* The text of the number n < 100 and the name of work unit n
NumberText(n) ==
  LET digit(k) == CHOOSE c \in Digits : DigitVal(c) = k
  IN IF n < 10 THEN <<digit(n)>> ELSE <<digit(n \div 10), digit(n % 10)>>

Unidade(n) == NumberText(n) \o <<"º GB">>

\* A data line with the work unit given
RowUnidade(unidade) ==
  << <<"1">>, <<"Ana">>, CPF_PONTUADO, NASCIMENTO, <<"3", "5">>, unidade,
     <<"Cabo">>, INICIO, <<"NÃO">> >>

\* The encodings under which the bytes of a file may decode: latin1 decodes
\* every byte, cp1252 all but five, utf-8 the well-formed sequences
Decodables == { {"cp1252", "latin1"}, {"utf-8", "latin1"}, {"latin1"} }

\* A data line with the age and the bonus flag given
RowAbono(idade, abono) ==
  << <<"1">>, <<"Ana">>, CPF_PONTUADO, NASCIMENTO, idade, <<"1º GB">>,
     <<"Cabo">>, INICIO, abono >>

Abonos ==
  { SIM, <<"S", "i", "m">>, <<"s", "i", "m">>, <<"N", "Ã", "O">>, <<"S">>, <<>> }

\* An export without the optional bonus column, and a data line of it
HEADER_SEM_ABONO == SelectSeq(HEADER, LAMBDA c : c # cAbono)

RowSemAbono(idade) == SubSeq(RowAbono(idade, SIM), 1, Len(HEADER) - 1)

\* The day of the session: load_data and the validation read the clock
Hojes == { <<2025, 6, 15>> }

BaseRow == Row(CPF_PONTUADO, <<"3", "5">>, <<"Cabo">>)

Idades ==
  { <<"1", "5">>, <<"1", "8">>, <<"6", "2">>, <<"7", "0">>, <<"7", "5">>,
    <<"a", "b", "c">>, <<>>, <<" ", "3", "5", ",", "0">>,
    <<"3", "5", " ", "a", "n", "o", "s">> }

CPFs == { CPF_PONTUADO, CPF_DIGITOS, <<"1", "2", "3">>, <<>>,
          <<"1", "2", "3", "4", "5", "6", "7", "8", "9", "0">> }

Cargos == { <<"Soldado 2ª Classe">>, <<"Cabo">>, <<"Coronel">>,
            <<"Comandante Especial">>, <<" ", "Major">> }

\* Lines with fewer fields than the header (without and with the age), with
\* more, and with no value at all
RaggedRows ==
  { BaseRow, SubSeq(BaseRow, 1, 3), SubSeq(BaseRow, 1, 6),
    BaseRow \o << <<"x">> >>, [j \in 1..Len(HEADER) |-> <<>>] }

RowFamilies ==
  { {Row(CPF_PONTUADO, i, <<"Cabo">>) : i \in Idades},
    {Row(c, <<"3", "5">>, <<"Cabo">>) : c \in CPFs},
    {Row(CPF_PONTUADO, <<"3", "5">>, g) : g \in Cargos},
    {RowInicio(d) : d \in Inicios},
    {RowInicio(d) : d \in IniciosTempo},
    {RowAbono(<<"3", "5">>, a) : a \in Abonos}
      \cup {RowAbono(<<"5", "5">>, a) : a \in {SIM, <<"N", "Ã", "O">>}},
    RaggedRows }

SeqsUpTo(S, n) == UNION {[1..m -> S] : m \in 0..n}

\* A file: pre lines of metadata, the header, the data lines, with an
\* optional blank line before and after the header
Layout(pre, blank1, header, blank2, rws) ==
  [i \in 1..pre |-> META] \o (IF blank1 THEN <<BLANK>> ELSE <<>>)
  \o <<header>> \o (IF blank2 THEN <<BLANK>> ELSE <<>>) \o rws

\* The header with one column left out, and with a column more
Headers ==
  {HEADER, HEADER \o <<<<"UF">>>>}
  \cup {SelectSeq(HEADER, LAMBDA c : c # d) : d \in Range(HEADER)}

Files ==
  {Layout(SKIPROWS, FALSE, HEADER, FALSE, rws) :
     rws \in UNION {SeqsUpTo(F, MaxRows) : F \in RowFamilies}
              \cup SeqsUpTo({Row(CPF_PONTUADO, <<"3", "5">>, g) :
                              g \in {<<"Soldado 2ª Classe">>, <<"Coronel">>,
                                     <<"Comandante Especial">>}},
                            MaxRows + 1)}
  \cup {Layout(SKIPROWS, FALSE, HEADER, FALSE,
                <<Row(CPF_PONTUADO, <<"3", "5">>, <<g>>)>>) :
          g \in Range(ORDEM_CARGOS) \ {"Todos"}}
  \cup {Layout(pre, b1, HEADER, b2, <<BaseRow>>) :
          pre \in 0..MaxPre, b1 \in BOOLEAN, b2 \in BOOLEAN}
  \cup {Layout(SKIPROWS, FALSE, h, TRUE, <<BaseRow, BaseRow>>) : h \in Headers}
  \cup {Layout(SKIPROWS, FALSE, HEADER_SEM_ABONO, FALSE, rws) :
          rws \in SeqsUpTo({RowSemAbono(i) : i \in {<<"3", "5">>, <<"5", "5">>}},
                           MaxRows)}
  \cup {Layout(SKIPROWS, FALSE, HEADER, FALSE,
                [i \in 1..n |-> RowUnidade(Unidade(i))]) : n \in 1..MaxUnits}
  \cup {Layout(SKIPROWS, FALSE, HEADER, FALSE,
                [i \in 1..n |-> RowUnidade(Unidade(1 + (i % 2)))]) :
          n \in 3..MaxUnits}

NoFile == <<>>

\* The options of the unit selectbox the user picks
Unidades == {TODAS, <<"1º GB">>} \cup {Unidade(n) : n \in 1..MaxUnits}

\* The rank buttons the user clicks: one of each of the three tabs
Clicados == { "Cabo", "Aluno de 1º Ano", "Major" }

----------------------------------------------------------------------------
(* The state machine: one action per run of main().  A session is followed *)
(* from the upload of its file; every later run finds the result of        *)
(* load_data in the cache (st.cache_data) and only the widgets change.     *)

Init ==
  /\ uploaded_file = NoFile
  /\ df = None
  /\ erro = NoError
  /\ calls = {}
  /\ log = <<>>
  /\ cargo_selecionado = Unset
  /\ fig_cargo = NoFigure
  /\ df_filtrado = <<>>
  /\ df_final = None
  /\ fig_unit = NoFigure
  /\ unit_data = <<>>
  /\ fig_idade = NoFigure
  /\ file_encodings = {}
  /\ encodings_tried = <<>>
  /\ aposentados = 0
  /\ retirement_candidates = NoCandidates
  /\ agora = <<>>
  /\ valido = NotCalled
  /\ avisos = <<>>
  /\ efetivo = NoEfetivo
  /\ unidade_selecionada = TODAS
  /\ erro_main = "none"
  /\ tabs_detalhe = <<>>
  /\ df_unidade = <<>>

\* The user uploads a file: main() runs load_data on it and, when the table
\* is accepted, the filters and the charts.
UploadFile(file, decodable, hoje, raises) ==
  \E out \in {load_data(file, decodable, hoje, raises)} :
     /\ uploaded_file = NoFile
     /\ uploaded_file' = file
     /\ file_encodings' = decodable
     /\ encodings_tried' = try_encodings(file, decodable, 1).tried
     /\ df' = out.df
     /\ erro' = out.erro
     /\ calls' = out.calls
     /\ log' = out.log
     /\ cargo_selecionado' = SelectionAfterRun(df', cargo_selecionado)
     /\ fig_cargo' = FigureAfterRun(df', cargo_selecionado')
     /\ df_filtrado' = FilteredAfterRun(df', cargo_selecionado')
     /\ df_final' = TableAfterRun(df', cargo_selecionado')
     /\ fig_unit' = UnitChartAfterRun(df', cargo_selecionado')
     /\ unit_data' = UnitDataAfterRun(df', cargo_selecionado')
     /\ fig_idade' = AgeChartAfterRun(df', cargo_selecionado')
     /\ aposentados' = AposentadosAfterRun(df')
     /\ unidade_selecionada' = TODAS
     /\ \E det \in {DetailAfterRun(df', cargo_selecionado', TODAS)} :
          /\ retirement_candidates' = det.candidates
          /\ erro_main' = det.erro
          /\ tabs_detalhe' = det.tabs
          /\ df_unidade' = det.df_unidade
     /\ agora' = hoje
     /\ valido' = ValidationAfterRun(df')
     /\ avisos' = MessagesAfterRun(df', hoje)
     /\ efetivo' = EfetivoAfterRun(df')

\* The run of main() after a click that leaves the rank selection sel and
\* the unit selection unidade
Rerun(sel, unidade) ==
  /\ cargo_selecionado' = sel
  /\ fig_cargo' = FigureAfterRun(df, sel)
  /\ df_filtrado' = FilteredAfterRun(df, sel)
  /\ df_final' = TableAfterRun(df, sel)
  /\ fig_unit' = UnitChartAfterRun(df, sel)
  /\ unit_data' = UnitDataAfterRun(df, sel)
  /\ fig_idade' = AgeChartAfterRun(df, sel)
  /\ aposentados' = AposentadosAfterRun(df)
  /\ unidade_selecionada' = unidade
  /\ \E det \in {DetailAfterRun(df, sel, unidade)} :
       /\ retirement_candidates' = det.candidates
       /\ erro_main' = det.erro
       /\ tabs_detalhe' = det.tabs
       /\ df_unidade' = det.df_unidade
  /\ valido' = ValidationAfterRun(df)
  /\ avisos' = MessagesAfterRun(df, agora)
  /\ efetivo' = EfetivoAfterRun(df)
  /\ UNCHANGED <<uploaded_file, df, erro, calls, log, file_encodings,
                 encodings_tried, agora>>

\* Lines 934-936: the "Todos" button
ClickTodos ==
  /\ Rendered(df)
  /\ Rerun("Todos",
           UnidadeAfterRun(df, cargo_selecionado, "Todos", unidade_selecionada))

\* Lines 941-957: the button of a rank, in one of the three tabs
ClickCargo(cargo) ==
  /\ Rendered(df)
  /\ cargo \in Range(pracas) \cup Range(oficiais) \cup Range(alunos)
  /\ Rerun(toggle(cargo_selecionado, cargo),
           UnidadeAfterRun(df, cargo_selecionado,
                           toggle(cargo_selecionado, cargo),
                           unidade_selecionada))

\* Lines 1279-1287: a click on bar i of the rank chart
ClickBar(i) ==
  /\ Rendered(df)
  /\ i \in DOMAIN fig_cargo
  /\ Rerun(fig_cargo[i].y,
           UnidadeAfterRun(df, cargo_selecionado, fig_cargo[i].y,
                           unidade_selecionada))

\* Line 1100: the user picks an option of the unit selectbox
SelectUnidade(unidade) ==
  /\ Rendered(df)
  /\ unidade \in unidades_opcoes(df_filtered(df, cargo_selecionado))
  /\ unidade # unidade_selecionada
  /\ Rerun(cargo_selecionado, unidade)

Next ==
  \/ \E file \in Files, decodable \in Decodables, hoje \in Hojes,
        raises \in BOOLEAN :
       UploadFile(file, decodable, hoje, raises)
  \/ ClickTodos
  \/ \E cargo \in Clicados : ClickCargo(cargo)
  \/ \E i \in 1..Len(ORDEM_CARGOS) : ClickBar(i)
  \/ \E unidade \in Unidades : SelectUnidade(unidade)

Spec == Init /\ [][Next]_vars

----------------------------------------------------------------------------
(* The claims                                                              *)

Uploaded == uploaded_file # NoFile

Loaded == Uploaded /\ ~df.isNone

\* The file lines of the rows of the table
KeptLines == {df.rows[n].line : n \in DOMAIN df.rows}

\* The header line of the uploaded file and the numbers of its data lines
HeaderOf(file) == file[ParsedLineNos(file)[1]]

DataLineNos(file) == Range(Tail(ParsedLineNos(file)))

\* The rows of the uploaded file as they reach the age filter
BeforeAge ==
  Range(RowsBeforeAgeFilter(convert_dates(read_csv(uploaded_file))))

AgeKnown(r) == r.c[cIdade].k = "num"

\* lo <= age <= hi for a known age num/den
AgeWithin(r, lo, hi) ==
  /\ lo * r.c[cIdade].v[2] <= r.c[cIdade].v[1]
  /\ r.c[cIdade].v[1] <= hi * r.c[cIdade].v[2]

AgeIs(r, n) == AgeKnown(r) /\ r.c[cIdade].v[1] = n * r.c[cIdade].v[2]

\* C1 as stated: a row is dropped by the age filter exactly when its age was
\* parsed and lies outside 18..70, and every kept record with a known age
\* has 18 <= age <= 70.
C1_DroppedIffOutside18to70 ==
  Loaded =>
    /\ \A r \in BeforeAge :
         (r.line \notin KeptLines) <=> (AgeKnown(r) /\ ~AgeWithin(r, 18, 70))
    /\ \A r \in Range(df.rows) : AgeKnown(r) => AgeWithin(r, 18, 70)

\* C1 amended: the bound of the age filter is 18..62 inclusive.  A row whose
\* age was parsed is dropped by the filter exactly when the age lies outside
\* 18..62, and every kept record with a known age has 18 <= age <= 62 (15,
\* 70 and 75 are dropped, 18 and 62 are kept).
C1_DroppedIffOutside18to62 ==
  Loaded =>
    /\ \A r \in BeforeAge :
         AgeKnown(r) => ((r.line \notin KeptLines) <=> ~AgeWithin(r, 18, 62))
    /\ \A r \in Range(df.rows) : AgeKnown(r) => AgeWithin(r, 18, 62)

C1_Witness ==
  /\ Loaded
  /\ \E r \in Range(df.rows) : AgeIs(r, 18) \/ AgeIs(r, 62)
  /\ \E r \in BeforeAge :
       (AgeIs(r, 15) \/ AgeIs(r, 70) \/ AgeIs(r, 75)) /\ r.line \notin KeptLines

\* C2: a row whose age cannot be parsed is kept in the table, with its age
\* unknown; the age filter does not drop it.
C2_UnknownAgeKept ==
  Loaded =>
    \A r \in BeforeAge :
      ~AgeKnown(r) =>
        \E k \in Range(df.rows) : k.line = r.line /\ ~AgeKnown(k)

\* The records of the log that could account for a dropped row: all but the
\* two that report the file read and its columns
DropRecords(records) ==
  SelectSeq(records,
            LAMBDA m : m \notin {"info: Arquivo CSV carregado",
                                 "info: Colunas encontradas"})

\* C3: for every input that ingests successfully, the rows kept plus the
\* rows reported as dropped equal the rows read: no row disappears without
\* being counted.
C3_EveryRowAccounted ==
  Loaded =>
    Len(df.rows) + Len(DropRecords(log))
      = Cardinality(DataLineNos(uploaded_file))

\* C4: a data row with fewer fields than the header has columns is skipped;
\* it never appears in the table padded with missing values.
C4_ShortRowSkipped ==
  Loaded =>
    \A r \in Range(df.rows) :
      Len(uploaded_file[r.line]) >= Len(HeaderOf(uploaded_file))

\* The position of column c in the header of the modelled export
ColPos(c) == CHOOSE j \in DOMAIN HEADER : HEADER[j] = c

FirstDataLineNo(file) ==
  IF Len(ParsedLineNos(file)) < 2 THEN 0 ELSE ParsedLineNos(file)[2]

IsHeaderLine(ln) == \A c \in Range(COLUNAS_OBRIGATORIAS) : c \in Range(ln)

\* The number of the first line of the file carrying the signature (0 when
\* there is none), found by scanning the lines in order
ScanHeader(file) ==
  IF \E h \in DOMAIN file : IsHeaderLine(file[h])
  THEN CHOOSE h \in DOMAIN file :
         IsHeaderLine(file[h]) /\ \A m \in 1..(h - 1) : ~IsHeaderLine(file[m])
  ELSE 0

\* A file whose header is followed by valid records only
ValidAfterHeader(file) ==
  /\ ScanHeader(file) # 0
  /\ \E i \in DOMAIN file : i > ScanHeader(file) /\ file[i] = BaseRow
  /\ \A i \in DOMAIN file :
       i > ScanHeader(file) => file[i] \in {BLANK, BaseRow}

\* The header is the first non-blank line after the seventh line of the file
HeaderAfterSevenLines(file) ==
  /\ ScanHeader(file) > 7
  /\ \A m \in 8..(ScanHeader(file) - 1) : file[m] = BLANK

\* The bytes of the uploaded file decode under the first encoding tried
DecodesAtFirst == ENCODINGS[1] \in file_encodings

\* C6 as stated: the header is found by scanning, so a file with any number
\* of preamble lines before its header ingests; when there is no header the
\* call fails and returns no table.
C6_AnyPreambleLength ==
  (Uploaded /\ DecodesAtFirst) =>
    /\ ValidAfterHeader(uploaded_file) => ~df.isNone
    /\ ScanHeader(uploaded_file) = 0 => df.isNone

\* C6 amended: the header is not searched for.  The first 7 lines of the
\* file are skipped whatever they hold and the first non-blank line after
\* them is taken as the header: a file with valid records (whose bytes decode
\* as cp1252) ingests exactly when its header is that line, and otherwise
\* the call fails and returns no table.
C6_HeaderAfterSevenLines ==
  Uploaded =>
    /\ ~df.isNone => HeaderAfterSevenLines(uploaded_file)
    /\ (ValidAfterHeader(uploaded_file) /\ DecodesAtFirst) =>
         (~df.isNone <=> HeaderAfterSevenLines(uploaded_file))
    /\ ScanHeader(uploaded_file) = 0 => df.isNone

C6_Witness ==
  /\ Loaded
  /\ df.rows # <<>>
  /\ ScanHeader(uploaded_file) = 9

C6_WitnessFails ==
  /\ Uploaded
  /\ ValidAfterHeader(uploaded_file)
  /\ ScanHeader(uploaded_file) = 7
  /\ df.isNone

\* The required columns the header of the file lacks
MissingColumns(file) ==
  {c \in Range(COLUNAS_OBRIGATORIAS) : c \notin Range(HeaderOf(file))}

\* C7: when a required column is not among the headers read from the file,
\* load_data returns None, the error names the missing columns, and neither
\* _process_dataframe nor the service-time step runs.
C7_MissingColumnFatal ==
  (/\ Uploaded
   /\ DecodesAtFirst
   /\ ParsedLineNos(uploaded_file) # <<>>
   /\ MissingColumns(uploaded_file) # {})
  => /\ df.isNone
     /\ erro.kind = "ValueError: Colunas obrigatórias faltando"
     /\ Range(erro.cols) = MissingColumns(uploaded_file)
     /\ calls \cap {"_process_dataframe", "tempo_de_servico"} = {}
     /\ fig_cargo = NoFigure

C7_Witness ==
  /\ Uploaded
  /\ DecodesAtFirst
  /\ ParsedLineNos(uploaded_file) # <<>>
  /\ HeaderOf(uploaded_file) = SelectSeq(HEADER, LAMBDA c : c # cUnid)
  /\ df.isNone
  /\ Range(erro.cols) = {cUnid}

\* The text of field c of the file line a row was read from
RawField(r, c) == uploaded_file[r.line][ColPos(c)]

RECURSIVE OnlyDigits(_)
OnlyDigits(t) ==
  IF t = <<>> THEN <<>>
  ELSE (IF t[1] \in Digits THEN <<t[1]>> ELSE <<>>) \o OnlyDigits(Tail(t))

C9_CpfIdempotent ==
  Loaded =>
    \A r \in Range(df.rows) :
      Len(r.c[cCPF].v) = 11 => cpf_clean(r.c[cCPF].v) = r.c[cCPF].v

C9_Witness ==
  /\ Loaded /\ HeaderOf(uploaded_file) = HEADER
  /\ TableWidth(uploaded_file) = Len(HEADER)
  /\ \E r \in Range(df.rows) :
       /\ Len(r.c[cCPF].v) = 11
       /\ RawField(r, cCPF) # r.c[cCPF].v

\* The place of a rank in the published hierarchy
RankOrder(cargo) == CHOOSE j \in DOMAIN ORDEM_CARGOS : ORDEM_CARGOS[j] = cargo

\* The rows the rank chart is drawn from
ChartRows == df_filtered(df, cargo_selecionado)

\* C10: the ranks of the hierarchy present in the data are shown in the
\* order of the hierarchy, "Soldado 2ª Classe" lowest and "Coronel" highest,
\* whatever the order and the frequency of the rows.
C10_ChartFollowsHierarchy ==
  Rendered(df) =>
    /\ \A i, j \in DOMAIN fig_cargo :
         i < j => RankOrder(fig_cargo[i].y) < RankOrder(fig_cargo[j].y)
    /\ {fig_cargo[i].y : i \in DOMAIN fig_cargo}
         = {g \in Range(ORDEM_CARGOS) \ {"Todos"} :
              \E r \in Range(ChartRows) : r.c[cCargo] = Str(<<g>>)}
    /\ \A i \in DOMAIN fig_cargo :
         fig_cargo[i].x
           = Cardinality({n \in DOMAIN ChartRows :
                            ChartRows[n].c[cCargo] = Str(<<fig_cargo[i].y>>)})

\* A table whose first row is a Coronel, more frequent than the Soldado 2ª
\* Classe that follows
C10_Witness ==
  /\ Rendered(df)
  /\ Len(df.rows) = 3
  /\ df.rows[1].c[cCargo] = Str(<<"Coronel">>)
  /\ df.rows[2].c[cCargo] = Str(<<"Coronel">>)
  /\ df.rows[3].c[cCargo] = Str(<<"Soldado 2ª Classe">>)
  /\ Len(fig_cargo) = 2
  /\ fig_cargo[1].y = "Soldado 2ª Classe"
  /\ fig_cargo[2].y = "Coronel"

\* The ranks of the rows the rank chart is drawn from
RanksCharted == {r.c[cCargo] : r \in {q \in Range(ChartRows) : q.c[cCargo].k = "str"}}

KnownRank(cargo) == cargo \in Range(ORDEM_CARGOS) \ {"Todos"}

\* C11: a rank that is not in the published hierarchy still gets a place in
\* the rank-ordered output: every rank of the charted rows has a bar, and the
\* bars of the unknown ranks come after the bars of all known ranks.
C11_UnknownRankPlacedLast ==
  Rendered(df) =>
    /\ \A g \in RanksCharted :
         \E i \in DOMAIN fig_cargo : CargoCell(fig_cargo[i].y) = g
    /\ \A i, j \in DOMAIN fig_cargo :
         (i < j /\ ~KnownRank(fig_cargo[i].y)) => ~KnownRank(fig_cargo[j].y)

\* C12: the rank filter returns exactly the rows whose rank equals the
\* selected rank, in the order of the table, and with the selection "Todos"
\* it returns the full table.
C12_FilterSelectsRank ==
  Rendered(df) =>
    /\ cargo_selecionado = "Todos" => df_filtrado = df.rows
    /\ cargo_selecionado # "Todos" =>
         /\ {df_filtrado[n].line : n \in DOMAIN df_filtrado}
              = {r.line : r \in {q \in Range(df.rows) :
                                   q.c[cCargo] = Str(<<cargo_selecionado>>)}}
         /\ Range(df_filtrado) \subseteq Range(df.rows)
         /\ \A i, j \in DOMAIN df_filtrado :
              i < j => df_filtrado[i].line < df_filtrado[j].line

\* A rank selected that some rows of the table have and others have not
C12_Witness ==
  /\ Rendered(df)
  /\ cargo_selecionado \notin {"Todos", Unset}
  /\ df_filtrado # <<>>
  /\ Len(df_filtrado) < Len(df.rows)

\* C13: filtering and the charts computed after it never mutate the table:
\* when a run of main() ends, the table has the columns and the rows that
\* load_data returned.
C13_SourceTableUnchanged == Rendered(df) => df_final = df

\* The shares of the groups, in tenths of a percent
Shares == [u \in DOMAIN unit_data |-> unit_data[u].porcentagem.v[1]]

\* C14: for a non-empty table grouped by work unit, the shares of the groups,
\* each rounded to one decimal, sum to 100.0 within 0.1, whatever the number
\* of groups.
C14_PercentagesSumTo100 ==
  (Rendered(df) /\ df_filtrado # <<>>) =>
    /\ Sum(Shares, DOMAIN unit_data) >= 999
    /\ Sum(Shares, DOMAIN unit_data) <= 1001

\* The bars of the unit chart, as a table of their lengths
Bars == [i \in DOMAIN fig_unit |-> fig_unit[i]]

\* C15: the counts the unit chart shows sum to the number of records in the
\* view: the records of the units beyond the top N are reported too.
C15_TopNCountsSumToTotal ==
  Rendered(df) => Sum(Bars, DOMAIN fig_unit) = Len(df_filtrado)

\* The records of the view counted in the bars of the age chart
AgeBars == [i \in DOMAIN fig_idade |-> fig_idade[i].y]

\* C16: the age bins are half-open with an inclusive lower bound, so every
\* kept record is counted in exactly one bar of the age chart, and a record
\* of age 18..22 (18 included) is counted in the first.
C16_EveryKeptAgeBucketed ==
  Rendered(df) =>
    /\ Sum(AgeBars, DOMAIN fig_idade) = Len(df_filtrado)
    /\ fig_idade[1].y
         = Cardinality({n \in DOMAIN df_filtrado :
                          /\ AgeWithin(df_filtrado[n], 18, 23)
                          /\ ~AgeIs(df_filtrado[n], 23)})

\* The first encoding of the list under which the bytes of the file decode
FirstDecoding ==
  ENCODINGS[CHOOSE k \in DOMAIN ENCODINGS :
              /\ ENCODINGS[k] \in file_encodings
              /\ \A m \in 1..(k - 1) : ENCODINGS[m] \notin file_encodings]

\* C17: load_data tries cp1252, utf-8, latin1 in this order and stops at the
\* first that decodes the file; it uses the text that encoding gives, so a
\* well-formed file ingests under whichever encoding decodes it first; a
\* decoding failure never reaches the caller.
C17_FirstDecodingUsed ==
  Uploaded =>
    /\ encodings_tried
         = SubSeq(ENCODINGS, 1,
                  CHOOSE k \in DOMAIN ENCODINGS : ENCODINGS[k] = FirstDecoding)
    /\ (ValidAfterHeader(uploaded_file) /\ HeaderAfterSevenLines(uploaded_file))
         => ~df.isNone
    /\ erro.kind \notin {"UnicodeDecodeError"}

\* The date a text writes as dd/mm/yyyy or else as yyyy-mm-dd or else as
\* dd-mm-yyyy, and NaT when it writes none
DateInAnyFormat(t) ==
  LET a == to_datetime(Str(t), "/", "dmy")
      b == to_datetime(Str(t), "-", "ymd")
      c == to_datetime(Str(t), "-", "dmy")
  IN IF a # NaT THEN a ELSE IF b # NaT THEN b ELSE c

\* The rows of the table read from a line as long as the header
FullRows ==
  {r \in Range(df.rows) : Len(uploaded_file[r.line]) = Len(HEADER)}

\* C18: each date value is coerced on its own, dd/mm/yyyy first, then
\* yyyy-mm-dd, then dd-mm-yyyy: a value valid in one of them is parsed to its
\* calendar date and only a value valid in none is unknown.
C18_DateInAnyFormatParsed ==
  (Loaded /\ HeaderOf(uploaded_file) = HEADER
          /\ TableWidth(uploaded_file) = Len(HEADER)) =>
    \A r \in FullRows :
      /\ r.c[cInicio] = DateInAnyFormat(RawField(r, cInicio))
      /\ r.c[cNasc] = DateInAnyFormat(RawField(r, cNasc))

\* The leading run of digits of a text
RECURSIVE LeadingDigits(_)
LeadingDigits(t) ==
  IF t # <<>> /\ IsDigit(t[1]) THEN <<t[1]>> \o LeadingDigits(Tail(t))
  ELSE <<>>

\* The digits the age of a row starts with, its blanks stripped
AgeDigits(r) == LeadingDigits(strip(RawField(r, cIdade)))

\* C19: the age is the integer written by the leading digits of the value,
\* its blanks stripped and whatever follows the digits ignored ("35 anos"
\* and "35,0" give 35); only a value without leading digits is unknown, and
\* it is never zero.
C19_AgeFromLeadingDigits ==
  (Loaded /\ HeaderOf(uploaded_file) = HEADER
          /\ TableWidth(uploaded_file) = Len(HEADER)) =>
    \A r \in {q \in BeforeAge : Len(uploaded_file[q.line]) = Len(HEADER)} :
      /\ AgeDigits(r) # <<>> => AgeIs(r, DigitsValue(AgeDigits(r)))
      /\ AgeDigits(r) = <<>> => ~AgeKnown(r)

\* A record whose bonus flag is "sim" in any mix of capitals
TrueLike(r) ==
  /\ r.c[cAbono].k = "str"
  /\ r.c[cAbono].v
       \in {<<a, b, c>> : a \in {"s", "S"}, b \in {"i", "I"}, c \in {"m", "M"}}

\* C20: a record has the bonus flag exactly when its value is "sim" in any
\* mix of capitals, and the "Recebem Abono" count and the retirement
\* candidates classify every record the same way (compared while no rank is
\* selected, when both are made of the same rows).
C20_BonusFlagConsistent ==
  (/\ Rendered(df)
   /\ cargo_selecionado = "Todos"
   /\ cAbono \in Range(df.columns)) =>
    /\ aposentados = Cardinality({n \in DOMAIN df.rows : TrueLike(df.rows[n])})
    /\ {k.line : k \in {q \in Range(retirement_candidates.rows) :
                           q.Motivo \in {"Recebe Abono", "Ambos"}}}
         = {r.line : r \in {q \in Range(df.rows) : TrueLike(q)}}

\* C21: when the bonus column is absent the flag is false for every record
\* and every operation that reads it completes without error: the summary
\* counts no record and the selection of the retirement candidates returns
\* the records older than 50, none of them for the bonus.
C21_AbsentBonusIsFalse ==
  (Rendered(df) /\ cAbono \notin Range(df.columns)) =>
    /\ aposentados = 0
    /\ retirement_candidates.erro = "none"
    /\ {k.line : k \in Range(retirement_candidates.rows)}
         = {r.line : r \in {q \in Range(df_filtrado) : cond_idade(q)}}
    /\ \A k \in Range(retirement_candidates.rows) : k.Motivo = "Idade > 50"

\* The value of a column is a text that is not empty
Filled(r, c) == r.c[c].k = "str" /\ r.c[c].v # <<>>

\* C22: every record of the loaded table has a name, a work unit and a rank
\* that are not empty; a row in which one of them is empty has been dropped.
C22_KeptRowsHaveNameUnitRank ==
  Loaded => \A r \in Range(df.rows) :
              Filled(r, cNome) /\ Filled(r, cUnid) /\ Filled(r, cCargo)

\* The messages of the validation of one kind
Avisos(tipo) == {a \in Range(avisos) : a.tipo = tipo}

\* The records whose CPF is the CPF of another record, and the records whose
\* start date is after the day of the run
RepeatedCPF == {r \in Range(df.rows) :
                  \E q \in Range(df.rows) : q.line # r.line /\ q.c[cCPF] = r.c[cCPF]}

StartsInFuture ==
  {r \in Range(df.rows) :
     /\ cInicio \in Range(df.columns)
     /\ r.c[cInicio].k = "date"
     /\ \/ r.c[cInicio].v[1] > agora[1]
        \/ r.c[cInicio].v[1] = agora[1] /\ r.c[cInicio].v[2] > agora[2]
        \/ /\ r.c[cInicio].v[1] = agora[1] /\ r.c[cInicio].v[2] = agora[2]
           /\ r.c[cInicio].v[3] > agora[3]}

\* C23: the validation only flags.  The repeated CPFs and the start dates in
\* the future are reported as counts (the number of records concerned, no
\* message when there is none), and the table the dashboard works on after
\* validate_dataframe has exactly the rows load_data returned.
C23_ValidationOnlyFlags ==
  Rendered(df) =>
    /\ Avisos("warning: CPFs duplicados")
         = {Aviso("warning: CPFs duplicados", cCPF, Cardinality(RepeatedCPF)) :
              x \in IF RepeatedCPF # {} THEN {1} ELSE {}}
    /\ Avisos("warning: data de início no futuro")
         = {Aviso("warning: data de início no futuro", cInicio,
                  Cardinality(StartsInFuture)) :
              x \in IF StartsInFuture # {} THEN {1} ELSE {}}
    /\ [n \in DOMAIN df_final.rows |-> df_final.rows[n].line]
         = [n \in DOMAIN df.rows |-> df.rows[n].line]
    /\ \A n \in DOMAIN df.rows : \A c \in Range(df.columns) :
          df_final.rows[n].c[c] = df.rows[n].c[c]
    /\ cargo_selecionado = "Todos" => df_filtrado = df.rows

\* A table with two records of one CPF and a start date in the future
C23_Witness ==
  /\ Rendered(df)
  /\ Cardinality(RepeatedCPF) = 2
  /\ Cardinality(StartsInFuture) = 1
  /\ Len(df.rows) = 2

\* C24: once the filters are shown the selected rank is an entry of the
\* hierarchy list, "Todos" included, whatever buttons and bars were clicked.
C24_SelectionInHierarchy ==
  Rendered(df) => cargo_selecionado \in Range(ORDEM_CARGOS)

\* A rank is selected in a table that also holds a rank outside the list
C24_Witness ==
  /\ Rendered(df)
  /\ cargo_selecionado \in Range(ORDEM_CARGOS) \ {"Todos"}
  /\ df_filtrado # <<>>
  /\ \E r \in Range(df.rows) :
        r.c[cCargo].k = "str" /\ r.c[cCargo] \notin {CargoCell(g) : g \in Range(ORDEM_CARGOS)}

\* The buttons of the three tabs
RankButtons == Range(pracas) \cup Range(oficiais) \cup Range(alunos)

\* C25 as stated: the button of a rank selects it unless it is the selected
\* one, in which case the selection becomes "Todos"; the "Todos" button
\* selects "Todos"; and two clicks on the button of one rank end in "Todos"
\* from any state.
C25_TwoClicksEndInTodos ==
  Rendered(df) =>
    \A cargo \in RankButtons :
      /\ toggle(cargo_selecionado, cargo)
           = (IF cargo_selecionado = cargo THEN "Todos" ELSE cargo)
      /\ toggle(toggle(cargo_selecionado, cargo), cargo) = "Todos"

\* C25, amended: a click on the button of rank R selects R unless R is the
\* selected rank, in which case it selects "Todos"; the "Todos" button
\* selects "Todos"; two clicks on the button of R end in "Todos" when R was
\* not selected before them, and in R when it was.
C25_RankButtonsToggle ==
  [][/\ \A cargo \in RankButtons :
          ClickCargo(cargo) =>
            /\ cargo_selecionado'
                 = (IF cargo_selecionado = cargo THEN "Todos" ELSE cargo)
            /\ toggle(cargo_selecionado', cargo)
                 = (IF cargo_selecionado = cargo THEN cargo ELSE "Todos")
     /\ ClickTodos => cargo_selecionado' = "Todos"]_vars

\* A rank no row of the table has is selected: a button was clicked
C25_Witness ==
  /\ Rendered(df)
  /\ cargo_selecionado \in RankButtons
  /\ df_filtrado = <<>>

\* The rank of a record is a published rank of the hierarchy
Published(r) ==
  \E g \in Range(ORDEM_CARGOS) \ {"Todos"} : r.c[cCargo] = CargoCell(g)

\* C26: in a table that holds published ranks only, the headcounts of
\* Praças, Oficiais and Alunos sum to the number of records.
C26_CategoriesCoverRanks ==
  (Rendered(df) /\ \A r \in Range(df.rows) : Published(r)) =>
    efetivo.pracas + efetivo.oficiais + efetivo.alunos = Len(df.rows)

\* The service-time step of load_data ended in its except (line 199)
ServiceStepFailed ==
  \E i \in DOMAIN log : log[i] = "error: Erro ao calcular tempo de serviço"

\* The day <<y, m, d>> is before the day <<y2, m2, d2>>
Before(a, b) ==
  \/ a[1] < b[1]
  \/ a[1] = b[1] /\ a[2] < b[2]
  \/ a[1] = b[1] /\ a[2] = b[2] /\ a[3] < b[3]

\* C27: after a load of a file with a start-date column in which the
\* service-time step raised no error, the service time of every record is
\* a number of years from 0 to 40: 0 without a start date (missing or not
\* parsed), 0 for a start date after the day of the load, 40 for a start
\* date more than 40 years before it.
C27_ServiceTimeWithin0to40 ==
  (Loaded /\ cInicio \in Range(df.columns) /\ ~ServiceStepFailed) =>
    \A r \in Range(df.rows) :
      LET t == r.c[cTempo]
          d == r.c[cInicio]
      IN /\ t.k = "num"
         /\ 0 <= t.v[1] /\ t.v[1] <= 40 * t.v[2]
         /\ d.k # "date" => t.v[1] = 0
         /\ (d.k = "date" /\ Before(agora, d.v)) => t.v[1] = 0
         /\ (d.k = "date" /\ Before(<<d.v[1] + 40, d.v[2], d.v[3]>>, agora))
              => t.v[1] = 40 * t.v[2]

\* A table with a start date in the future and one of 1980
C27_Witness ==
  /\ Loaded /\ cInicio \in Range(df.columns) /\ ~ServiceStepFailed
  /\ \E r \in Range(df.rows) :
        r.c[cInicio].k = "date" /\ Before(agora, r.c[cInicio].v) /\ r.c[cTempo] = Num(0, 10)
  /\ \E r \in Range(df.rows) :
        /\ r.c[cInicio].k = "date"
        /\ Before(<<r.c[cInicio].v[1] + 40, r.c[cInicio].v[2], r.c[cInicio].v[3]>>, agora)
        /\ r.c[cTempo] = Num(400, 10)

\* The rows of the detailed view that belong to the selected unit
UnitRows ==
  SelectSeq(df_filtrado, LAMBDA r : r.c[cUnid] = Str(unidade_selecionada))

\* C29: with a work unit selected in the detailed view the run raises no
\* error, the unit tab shows exactly the records of that unit and the
\* retirement tab after it is rendered.
C29_UnitSelectionCompletes ==
  (Rendered(df) /\ unidade_selecionada # TODAS) =>
    /\ erro_main = "none"
    /\ \E i \in DOMAIN tabs_detalhe : tabs_detalhe[i] = "unidade"
    /\ df_unidade = UnitRows
    /\ \E i \in DOMAIN tabs_detalhe : tabs_detalhe[i] = "aposentadoria"

\* The retirement tab of the detailed view was rendered
RetirementTabRendered ==
  \E i \in DOMAIN tabs_detalhe : tabs_detalhe[i] = "aposentadoria"

\* The age of a record is over 50
Over50(r) == AgeKnown(r) /\ r.c[cIdade].v[1] > 50 * r.c[cIdade].v[2]

\* C28: the retirement candidates are exactly the records of the view that
\* are over 50 or have the bonus flag set, in the order of the table, each
\* with one reason: "Ambos" when both hold, "Recebe Abono" when only the
\* flag holds, "Idade > 50" when only the age holds.
C28_CandidatesAndReasons ==
  (Rendered(df) /\ RetirementTabRendered) =>
    LET expected == SelectSeq(df_filtrado, LAMBDA r : Over50(r) \/ TrueLike(r))
    IN /\ Len(retirement_candidates.rows) = Len(expected)
       /\ \A n \in DOMAIN expected :
            /\ retirement_candidates.rows[n].line = expected[n].line
            /\ retirement_candidates.rows[n].Motivo
                 = (IF Over50(expected[n]) /\ TrueLike(expected[n]) THEN "Ambos"
                    ELSE IF TrueLike(expected[n]) THEN "Recebe Abono"
                    ELSE "Idade > 50")

\* A view with a candidate for both reasons and one for the age alone
C28_Witness ==
  /\ Rendered(df) /\ RetirementTabRendered
  /\ \E k \in Range(retirement_candidates.rows) : k.Motivo = "Ambos"
  /\ \E k \in Range(retirement_candidates.rows) : k.Motivo = "Idade > 50"

\* The dashboard body (filters and charts) was rendered by the last run
BodyRendered == cargo_selecionado # Unset /\ fig_idade # NoFigure

\* The warnings of the validation of the last run
Warnings ==
  {a \in Range(avisos) :
     a.tipo \in {"warning: poucos registros", "warning: CPFs duplicados",
                 "warning: idades fora do intervalo", "warning: valores nulos",
                 "warning: sem data de nascimento",
                 "warning: data de início no futuro"}}

\* C30: validate_dataframe returns False exactly for a table that is None,
\* has no rows or lacks a required column, whatever warnings it shows, and
\* the body of the dashboard is rendered exactly when load_data returned a
\* table and validate_dataframe returned True.
C30_ValidationResult ==
  Uploaded =>
    /\ validate_dataframe(df)
         = ~(\/ df.isNone
             \/ df.rows = <<>>
             \/ \E c \in Range(COLUNAS_OBRIGATORIAS) : c \notin Range(df.columns))
    /\ valido = (IF df.isNone THEN NotCalled ELSE validate_dataframe(df))
    /\ BodyRendered <=> (~df.isNone /\ valido = TRUE)
    /\ (~df.isNone /\ df.rows # <<>>) => (valido = TRUE /\ Warnings # {})

\* A table accepted with the warnings of few records, repeated CPFs, null
\* values and a start date in the future
C30_Witness ==
  /\ Uploaded /\ ~df.isNone /\ valido = TRUE /\ BodyRendered
  /\ \A t \in {"warning: poucos registros", "warning: CPFs duplicados",
                "warning: data de início no futuro"} :
        \E a \in Warnings : a.tipo = t

====
